---- MODULE Spec2Model ----
(***************************************************************************)
(* Model of src/src/main.py: the two checkpointed traversals               *)
(* export_kernels (kernel listings of competitions) and export_notebooks   *)
(* (notebooks of kernels), the exclude file they load and rewrite, the     *)
(* output directory they write, and the process being killed and started   *)
(* again.                                                                  *)
(***************************************************************************)
EXTENDS Integers, Sequences, FiniteSets, TLC

\* ------------------------------------------------------------------ bounds
\* Number of refs in the universe (competition refs / kernel refs).
NumRefs == 2
\* Number of times the command is started.
MaxRuns == 2

\* ---------------------------------------------------------------- universe
\* The refs of the universe: json.load(comp_file) / _list_all_kernel_refs.
Refs == 1..NumRefs
\* A ref found in the exclude file that is not (or no longer) in the universe;
\* also the value of the loop variable before the first iteration.
StaleRef == NumRefs + 1

Range(s) == {s[i] : i \in DOMAIN s}

\* ------------------------------------------------------------ exclude file
\* Content of the exclude file: a JSON list of refs (ok), or text that
\* json.load rejects (an empty or partly written file).
ValidFile(refs) == [ok |-> TRUE, refs |-> refs]
TruncatedFile == [ok |-> FALSE, refs |-> <<>>]

\* Mutant of LoadExcluded: the list is not read, every run starts from [].
LoadExcludedFresh(file) == <<>>

\* json.load(exclude_file) with the JSONDecodeError handler.
LoadExcluded(file) == IF file.ok THEN file.refs ELSE <<>>

\* Mutant of RelevantRefs: the excluded refs are not subtracted.
RelevantRefsAll(refs, excluded) == refs

\* relevant_refs = set(refs) - set(excluded_refs)
RelevantRefs(refs, excluded) == refs \ Range(excluded)

\* ------------------------------------------------------- remote responses
\* What client.fetch_kernel_refs(ref) does: returns a list of `len` kernel
\* refs, or raises.
KernelResponses ==
    { [exc |-> "none", len |-> 0],
      [exc |-> "none", len |-> 1],
      [exc |-> "Exception", len |-> 0] }

\* What client.fetch_notebook(ref) and the conversion of its source do.
\*   exc/status : the exception fetch_notebook raises ("none": it returns)
\*   metadata, language, kernelType, blob, source : the returned payload
\*   nb : what nbformat.reads / PythonExporter do with the source
NbResponse(exc, status, metadata, language, kernelType, blob, source, nb) ==
    [exc |-> exc, status |-> status, metadata |-> metadata,
     language |-> language, kernelType |-> kernelType,
     blob |-> blob, source |-> source, nb |-> nb]

RespScript     == NbResponse("none", 200, "dict", "python", "script", "dict", "str", "valid")
RespNotebook   == NbResponse("none", 200, "dict", "python", "notebook", "dict", "str", "valid")
RespInvalidNb  == NbResponse("none", 200, "dict", "python", "notebook", "dict", "str", "NotebookValidationError")
RespExportFail == NbResponse("none", 200, "dict", "python", "notebook", "dict", "str", "Exception")
RespNoMetadata == NbResponse("none", 200, "None", "python", "script", "dict", "str", "valid")
RespNotFound   == NbResponse("ApiException", 404, "None", "python", "script", "None", "None", "valid")
RespUnavailable == NbResponse("ApiException", 500, "None", "python", "script", "None", "None", "valid")

NotebookResponses ==
    { RespScript, RespNotebook, RespInvalidNb, RespExportFail,
      RespNoMetadata, RespNotFound, RespUnavailable }

Responses(f) == IF f = "kernels" THEN KernelResponses ELSE NotebookResponses

\* ------------------------------------------------------------------- state
VARIABLES
    flow,           \* the command: "kernels" or "notebooks"
    remote,         \* ref -> what the remote service answers for it
    exclude_file,   \* content of the exclude file on disk
    out_dir,        \* ref -> the output files of the ref on disk
    pc,             \* position of the process
    excluded_refs,  \* the in-memory list excluded_refs
    relevant_refs,  \* the set relevant_refs
    remaining,      \* refs the for loop has not yet yielded
    index,          \* enumerate index of the current ref
    ref,            \* competition_ref / kernel_ref
    run,            \* number of runs started
    loaded,         \* excluded_refs as loaded at the start of this run
    start_out,      \* out_dir at the start of this run
    start_file,     \* exclude_file at the start of this run
    fetches,        \* ref -> number of fetch calls in this run
    outcome,        \* ref -> outcome of its attempt in this run
    written,        \* refs with an output file opened for writing in this run
    flushed,        \* refs whose save completed in this run
    saved,          \* content of the last completed write of the exclude file
    changed,        \* the remote service changed since the last run ended
    iter,           \* excluded_refs and exclude_file when this iteration began
    prev,           \* summary of the previous run
    progress,       \* the progress line last printed: ordinal and total
    exclude_exists, \* the path given as --exclude names an existing file
    kernel_dir,     \* the files of the --kernels directory, by content
    kernel_files,   \* _list_all_kernel_refs: the files still to be read
    kernel_refs,    \* _list_all_kernel_refs: result, and whether it raised
    name_ref,       \* a kernel ref as a string of characters
    out_names       \* the output file names derived from name_ref

vars == << flow, remote, exclude_file, out_dir, pc, excluded_refs,
           relevant_refs, remaining, index, ref, run, loaded, start_out,
           start_file, fetches, outcome, written, flushed, saved, changed,
           iter, prev, progress, exclude_exists, kernel_dir, kernel_files,
           kernel_refs, name_ref, out_names >>

proc == << excluded_refs, relevant_refs, remaining, index, ref >>
hist == << loaded, start_out, start_file, fetches, outcome, written, flushed,
           iter, prev >>

\* The state of the parts of the program a command run does not touch.
aux == << exclude_exists, kernel_dir, kernel_files, kernel_refs, name_ref,
         out_names >>

NoFiles == [listing |-> "absent", meta |-> "absent", py |-> "absent"]

NoPrev == [status |-> "none", transient |-> {}, flushed |-> {}, changed |-> FALSE]

\* No progress line printed yet.
NoProgress == [ordinal |-> 0, total |-> 0]
\* _list_all_kernel_refs has not been called.
NotListed == [raised |-> FALSE, result |-> <<>>]
\* No output file name derived yet.
NoNames == [meta |-> <<>>, py |-> <<>>]

\* Exclude files a first start can find: empty (never written), or a list
\* left by an earlier command.
InitFiles ==
    { TruncatedFile, ValidFile(<<StaleRef, 1>>) }

Init ==
    /\ flow \in {"kernels", "notebooks"}
    /\ remote \in [Refs -> Responses(flow)]
    /\ exclude_file \in InitFiles
    /\ out_dir = [r \in Refs |-> NoFiles]
    /\ pc = "idle"
    /\ excluded_refs = <<>>
    /\ relevant_refs = {}
    /\ remaining = {}
    /\ index = 0
    /\ ref = StaleRef
    /\ run = 0
    /\ loaded = <<>>
    /\ start_out = out_dir
    /\ start_file = exclude_file
    /\ fetches = [r \in Refs |-> 0]
    /\ outcome = [r \in Refs |-> "none"]
    /\ written = {}
    /\ flushed = {}
    /\ saved = exclude_file
    /\ changed = FALSE
    /\ iter = [excluded |-> excluded_refs, file |-> exclude_file]
    /\ prev = NoPrev
    /\ progress = NoProgress
    /\ exclude_exists = TRUE
    /\ kernel_dir = <<>>
    /\ kernel_files = <<>>
    /\ kernel_refs = NotListed
    /\ name_ref = <<>>
    /\ out_names = NoNames

Stopped == pc \in {"idle", "done", "aborted", "terminated"}

\* The command is started: the prologue of export_kernels / export_notebooks
\* up to the computation of relevant_refs.
StartRun ==
    /\ Stopped
    /\ run < MaxRuns
    /\ run' = run + 1
    /\ excluded_refs' = LoadExcluded(exclude_file)
    /\ relevant_refs' = RelevantRefs(Refs, excluded_refs')
    /\ remaining' = relevant_refs'
    /\ index' = 0
    /\ ref' = StaleRef
    /\ pc' = "loop"
    /\ loaded' = excluded_refs'
    /\ start_out' = out_dir
    /\ start_file' = exclude_file
    /\ fetches' = [r \in Refs |-> 0]
    /\ outcome' = [r \in Refs |-> "none"]
    /\ written' = {}
    /\ flushed' = {}
    /\ prev' = [status |-> pc,
                transient |-> {r \in Refs : outcome[r] = "TransientSkip"},
                flushed |-> flushed,
                changed |-> changed]
    /\ changed' = FALSE
    /\ iter' = [excluded |-> excluded_refs', file |-> exclude_file]
    /\ UNCHANGED << flow, remote, exclude_file, out_dir, saved >>
    /\ progress' = NoProgress
    /\ UNCHANGED aux

\* Mutant of LoopNext: the total of the progress line is computed anew from
\* the exclusion list as it is now.
LoopNextLiveTotal ==
    /\ pc = "loop"
    /\ IF remaining = {}
       THEN /\ pc' = "done"
            /\ UNCHANGED << ref, remaining, index, progress >>
       ELSE /\ \E r \in remaining :
                 /\ ref' = r
                 /\ remaining' = remaining \ {r}
            /\ index' = Cardinality(relevant_refs) - Cardinality(remaining)
            /\ progress' = [ordinal |-> index' + 1,
                            total |-> Cardinality(
                                RelevantRefs(Refs, excluded_refs))]
            /\ pc' = "fetch"
    /\ iter' = [excluded |-> excluded_refs, file |-> exclude_file]
    /\ UNCHANGED << flow, remote, exclude_file, out_dir, excluded_refs,
                    relevant_refs, run, loaded, start_out, start_file,
                    fetches, outcome, written, flushed, prev, saved, changed >>
    /\ UNCHANGED aux

\* Mutant of LoopNext: the ref taken up stays among those still to come.
LoopNextKeepsRef ==
    /\ pc = "loop"
    /\ IF remaining = {}
       THEN /\ pc' = "done"
            /\ UNCHANGED << ref, remaining, index, progress >>
       ELSE /\ \E r \in remaining :
                 /\ ref' = r
                 /\ remaining' = remaining
            /\ index' = Cardinality(relevant_refs) - Cardinality(remaining)
            /\ progress' = [ordinal |-> index' + 1,
                            total |-> Cardinality(relevant_refs)]
            /\ pc' = "fetch"
    /\ iter' = [excluded |-> excluded_refs, file |-> exclude_file]
    /\ UNCHANGED << flow, remote, exclude_file, out_dir, excluded_refs,
                    relevant_refs, run, loaded, start_out, start_file,
                    fetches, outcome, written, flushed, prev, saved, changed >>
    /\ UNCHANGED aux

\* for index, ref in enumerate(relevant_refs): the next ref in the (arbitrary)
\* iteration order of the set and the progress line, or the end of the loop.
LoopNext ==
    /\ pc = "loop"
    /\ IF remaining = {}
       THEN /\ pc' = "done"
            /\ UNCHANGED << ref, remaining, index, progress >>
       ELSE /\ \E r \in remaining :
                 /\ ref' = r
                 /\ remaining' = remaining \ {r}
            /\ index' = Cardinality(relevant_refs) - Cardinality(remaining)
            /\ progress' = [ordinal |-> index' + 1,
                            total |-> Cardinality(relevant_refs)]
            /\ pc' = "fetch"
    /\ iter' = [excluded |-> excluded_refs, file |-> exclude_file]
    /\ UNCHANGED << flow, remote, exclude_file, out_dir, excluded_refs,
                    relevant_refs, run, loaded, start_out, start_file,
                    fetches, outcome, written, flushed, prev, saved, changed >>
    /\ UNCHANGED aux

\* Mutant of KFetch: an empty list is treated like no answer, the ref is not
\* excluded.
KFetchSkipEmpty ==
    /\ flow = "kernels"
    /\ pc = "fetch"
    /\ fetches' = [fetches EXCEPT ![ref] = @ + 1]
    /\ IF remote[ref].exc # "none"
       THEN /\ pc' = "aborted"
            /\ outcome' = [outcome EXCEPT ![ref] = "Error"]
       ELSE /\ pc' = IF remote[ref].len > 0 THEN "listing" ELSE "loop"
            /\ outcome' = [outcome EXCEPT ![ref] = "Success"]
    /\ UNCHANGED << flow, remote, exclude_file, out_dir, proc, run, loaded,
                    start_out, start_file, written, flushed, saved, changed,
                    iter, prev >>
    /\ UNCHANGED << progress, aux >>

\* export_kernels: kernel_refs = client.fetch_kernel_refs(competition_ref).
\* Nothing catches an exception of the call: the command ends with it.
KFetch ==
    /\ flow = "kernels"
    /\ pc = "fetch"
    /\ fetches' = [fetches EXCEPT ![ref] = @ + 1]
    /\ IF remote[ref].exc # "none"
       THEN /\ pc' = "aborted"
            /\ outcome' = [outcome EXCEPT ![ref] = "Error"]
       ELSE /\ pc' = IF remote[ref].len > 0 THEN "listing" ELSE "append"
            /\ outcome' = [outcome EXCEPT ![ref] = "Success"]
    /\ UNCHANGED << flow, remote, exclude_file, out_dir, proc, run, loaded,
                    start_out, start_file, written, flushed, saved, changed,
                    iter, prev >>
    /\ UNCHANGED << progress, aux >>

\* export_kernels: the listing file <ref>.json is opened and written.
KWriteListing ==
    /\ flow = "kernels"
    /\ pc = "listing"
    /\ out_dir' = [out_dir EXCEPT ![ref].listing = "written"]
    /\ written' = written \cup {ref}
    /\ pc' = "append"
    /\ UNCHANGED << flow, remote, exclude_file, proc, run, loaded, start_out,
                    start_file, fetches, outcome, flushed, saved, changed,
                    iter, prev >>
    /\ UNCHANGED << progress, aux >>

\* Mutant of NbBranch: status 403 is not told apart from the other remote
\* errors.
NbBranchNoForbidden(resp) ==
    IF resp.exc = "ApiException"
    THEN IF resp.status = 404 THEN "not found"
         ELSE "continue"
    ELSE IF resp.exc # "none" THEN "continue"
    ELSE IF resp.metadata = "None" THEN "missing metadata"
    ELSE IF resp.language # "python" THEN "kernel language"
    ELSE IF resp.kernelType # "script" /\ resp.kernelType # "notebook"
         THEN "kernel type"
    ELSE IF resp.blob = "None" \/ resp.source = "None" THEN "missing source"
    ELSE "export"

\* The branch of export_notebooks that a response takes between the fetch
\* and the first write: an exception handler, a skip message, or the export.
NbBranch(resp) ==
    IF resp.exc = "ApiException"
    THEN IF resp.status = 403 THEN "forbidden"
         ELSE IF resp.status = 404 THEN "not found"
         ELSE "continue"
    ELSE IF resp.exc # "none" THEN "continue"
    ELSE IF resp.metadata = "None" THEN "missing metadata"
    ELSE IF resp.language # "python" THEN "kernel language"
    ELSE IF resp.kernelType # "script" /\ resp.kernelType # "notebook"
         THEN "kernel type"
    ELSE IF resp.blob = "None" \/ resp.source = "None" THEN "missing source"
    ELSE "export"

\* Mutant of NbFetch: the handlers of an unexpected error lack their
\* `continue`, so the ref is excluded like a skipped one.
NbFetchNoContinue ==
    /\ flow = "notebooks"
    /\ pc = "fetch"
    /\ fetches' = [fetches EXCEPT ![ref] = @ + 1]
    /\ LET b == NbBranch(remote[ref]) IN
       /\ pc' = IF b = "export" THEN "meta" ELSE "append"
       /\ outcome' = [outcome EXCEPT ![ref] =
                        IF b = "export" THEN "none"
                        ELSE IF b = "continue" THEN "TransientSkip"
                        ELSE "PermanentSkip"]
    /\ UNCHANGED << flow, remote, exclude_file, out_dir, proc, run, loaded,
                    start_out, start_file, written, flushed, saved, changed,
                    iter, prev >>
    /\ UNCHANGED << progress, aux >>

\* export_notebooks: result = client.fetch_notebook(kernel_ref) and the
\* if/elif chain on the result, up to the first write.
NbFetch ==
    /\ flow = "notebooks"
    /\ pc = "fetch"
    /\ fetches' = [fetches EXCEPT ![ref] = @ + 1]
    /\ LET b == NbBranch(remote[ref]) IN
       /\ pc' = IF b = "export" THEN "meta"
                ELSE IF b = "continue" THEN "loop"
                ELSE "append"
       /\ outcome' = [outcome EXCEPT ![ref] =
                        IF b = "export" THEN "none"
                        ELSE IF b = "continue" THEN "TransientSkip"
                        ELSE "PermanentSkip"]
    /\ UNCHANGED << flow, remote, exclude_file, out_dir, proc, run, loaded,
                    start_out, start_file, written, flushed, saved, changed,
                    iter, prev >>
    /\ UNCHANGED << progress, aux >>

\* export_notebooks: the metadata file is opened and written.
NbExportMetadata ==
    /\ flow = "notebooks"
    /\ pc = "meta"
    /\ out_dir' = [out_dir EXCEPT ![ref].meta = "written"]
    /\ written' = written \cup {ref}
    /\ pc' = "py_open"
    /\ UNCHANGED << flow, remote, exclude_file, proc, run, loaded, start_out,
                    start_file, fetches, outcome, flushed, saved, changed,
                    iter, prev >>
    /\ UNCHANGED << progress, aux >>

\* Mutant of NbOpenSource: the ref is appended and saved once the source
\* file is open, before anything is written to it.
NbOpenSourceThenSave ==
    /\ flow = "notebooks"
    /\ pc = "py_open"
    /\ out_dir' = [out_dir EXCEPT ![ref].py = "empty"]
    /\ written' = written \cup {ref}
    /\ outcome' = [outcome EXCEPT ![ref] = "Success"]
    /\ pc' = "append"
    /\ UNCHANGED << flow, remote, exclude_file, proc, run, loaded, start_out,
                    start_file, fetches, flushed, saved, changed, iter,
                    prev >>
    /\ UNCHANGED << progress, aux >>

\* export_notebooks: open(<ref>.py, "w+") creates or empties the source file.
NbOpenSource ==
    /\ flow = "notebooks"
    /\ pc = "py_open"
    /\ out_dir' = [out_dir EXCEPT ![ref].py = "empty"]
    /\ written' = written \cup {ref}
    /\ pc' = "py_write"
    /\ UNCHANGED << flow, remote, exclude_file, proc, run, loaded, start_out,
                    start_file, fetches, outcome, flushed, saved, changed,
                    iter, prev >>
    /\ UNCHANGED << progress, aux >>

\* Mutant of NbWriteSource: an unexpected error of the conversion is handled
\* like an invalid notebook, so the ref is excluded.
NbWriteSourceNoContinue ==
    /\ flow = "notebooks"
    /\ pc = "py_write"
    /\ LET resp == remote[ref] IN
       IF resp.kernelType = "script"
       THEN /\ out_dir' = [out_dir EXCEPT ![ref].py = "source"]
            /\ outcome' = [outcome EXCEPT ![ref] = "Success"]
            /\ pc' = "append"
       ELSE IF resp.nb = "valid"
       THEN /\ out_dir' = [out_dir EXCEPT ![ref].py = "python"]
            /\ outcome' = [outcome EXCEPT ![ref] = "Success"]
            /\ pc' = "append"
       ELSE IF resp.nb \in {"NotebookValidationError", "NotJSONError"}
       THEN /\ outcome' = [outcome EXCEPT ![ref] = "PermanentSkip"]
            /\ pc' = "append"
            /\ UNCHANGED out_dir
       ELSE /\ outcome' = [outcome EXCEPT ![ref] = "TransientSkip"]
            /\ pc' = "append"
            /\ UNCHANGED out_dir
    /\ UNCHANGED << flow, remote, exclude_file, proc, run, loaded, start_out,
                    start_file, fetches, written, flushed, saved, changed,
                    iter, prev >>
    /\ UNCHANGED << progress, aux >>

\* export_notebooks: the body of the with block of the source file. A script
\* is written as it is; a notebook is read and converted first, which may
\* raise, and the handlers of the try decide what follows.
NbWriteSource ==
    /\ flow = "notebooks"
    /\ pc = "py_write"
    /\ LET resp == remote[ref] IN
       IF resp.kernelType = "script"
       THEN /\ out_dir' = [out_dir EXCEPT ![ref].py = "source"]
            /\ outcome' = [outcome EXCEPT ![ref] = "Success"]
            /\ pc' = "append"
       ELSE IF resp.nb = "valid"
       THEN /\ out_dir' = [out_dir EXCEPT ![ref].py = "python"]
            /\ outcome' = [outcome EXCEPT ![ref] = "Success"]
            /\ pc' = "append"
       ELSE IF resp.nb \in {"NotebookValidationError", "NotJSONError"}
       THEN /\ outcome' = [outcome EXCEPT ![ref] = "PermanentSkip"]
            /\ pc' = "append"
            /\ UNCHANGED out_dir
       ELSE /\ outcome' = [outcome EXCEPT ![ref] = "TransientSkip"]
            /\ pc' = "loop"
            /\ UNCHANGED out_dir
    /\ UNCHANGED << flow, remote, exclude_file, proc, run, loaded, start_out,
                    start_file, fetches, written, flushed, saved, changed,
                    iter, prev >>
    /\ UNCHANGED << progress, aux >>

\* Mutant of AppendExcluded: the list is replaced instead of extended.
AppendExcludedReset ==
    /\ pc = "append"
    /\ excluded_refs' = << ref >>
    /\ pc' = "save_open"
    /\ UNCHANGED << flow, remote, exclude_file, out_dir, relevant_refs,
                    remaining, index, ref, run, hist, saved, changed >>
    /\ UNCHANGED << progress, aux >>

\* Mutant of AppendExcluded: the ref is appended a second time.
AppendExcludedTwice ==
    /\ pc = "append"
    /\ excluded_refs' = Append(Append(excluded_refs, ref), ref)
    /\ pc' = "save_open"
    /\ UNCHANGED << flow, remote, exclude_file, out_dir, relevant_refs,
                    remaining, index, ref, run, hist, saved, changed >>
    /\ UNCHANGED << progress, aux >>

\* excluded_refs.append(ref)
AppendExcluded ==
    /\ pc = "append"
    /\ excluded_refs' = Append(excluded_refs, ref)
    /\ pc' = "save_open"
    /\ UNCHANGED << flow, remote, exclude_file, out_dir, relevant_refs,
                    remaining, index, ref, run, hist, saved, changed >>
    /\ UNCHANGED << progress, aux >>

\* open(exclude_file.name, "w"): the exclude file is emptied.
SaveOpen ==
    /\ pc = "save_open"
    /\ exclude_file' = TruncatedFile
    /\ pc' = "save_dump"
    /\ UNCHANGED << flow, remote, out_dir, proc, run, hist, saved, changed >>
    /\ UNCHANGED << progress, aux >>

\* Mutant of SaveDump: only the new ref is written, not the whole list.
SaveDumpOnlyNew ==
    /\ pc = "save_dump"
    /\ exclude_file' = ValidFile(<< ref >>)
    /\ saved' = exclude_file'
    /\ flushed' = flushed \cup {ref}
    /\ pc' = "loop"
    /\ UNCHANGED << flow, remote, out_dir, proc, run, loaded, start_out,
                    start_file, fetches, outcome, written, changed, iter,
                    prev >>
    /\ UNCHANGED << progress, aux >>

\* json.dump(excluded_refs, f) and the close of the file.
SaveDump ==
    /\ pc = "save_dump"
    /\ exclude_file' = ValidFile(excluded_refs)
    /\ saved' = exclude_file'
    /\ flushed' = flushed \cup {ref}
    /\ pc' = "loop"
    /\ UNCHANGED << flow, remote, out_dir, proc, run, loaded, start_out,
                    start_file, fetches, outcome, written, changed, iter,
                    prev >>
    /\ UNCHANGED << progress, aux >>

\* The process is killed from outside while it runs: its memory is gone, the
\* files stay as they are.
Terminate ==
    /\ ~Stopped
    /\ pc' = "terminated"
    /\ UNCHANGED << flow, remote, exclude_file, out_dir, proc, run, hist,
                    saved, changed >>
    /\ UNCHANGED << progress, aux >>

\* What the remote service answers for a ref once it has recovered.
Recovered(f) == IF f = "kernels" THEN [exc |-> "none", len |-> 1] ELSE RespScript

\* Between two runs the remote service recovers for a ref whose fetch raised
\* in the run that ended.
RemoteRecovers ==
    /\ Stopped
    /\ run < MaxRuns
    /\ ~changed
    /\ \E r \in Refs :
         /\ remote[r].exc # "none"
         /\ outcome[r] \in {"TransientSkip", "Error"}
         /\ remote' = [remote EXCEPT ![r] = Recovered(flow)]
    /\ changed' = TRUE
    /\ UNCHANGED << flow, exclude_file, out_dir, pc, proc, run, hist, saved >>
    /\ UNCHANGED << progress, aux >>

Next ==
    \/ StartRun
    \/ LoopNext
    \/ KFetch
    \/ KWriteListing
    \/ NbFetch
    \/ NbExportMetadata
    \/ NbOpenSource
    \/ NbWriteSource
    \/ AppendExcluded
    \/ SaveOpen
    \/ SaveDump
    \/ Terminate
    \/ RemoteRecovers

Spec == Init /\ [][Next]_vars

\* ------------------------------------------------- one run, any exclude file
\* The state of the process and of the records before the command is started,
\* whatever its inputs are.
InitProcess ==
    /\ out_dir = [r \in Refs |-> NoFiles]
    /\ pc = "idle"
    /\ excluded_refs = <<>>
    /\ relevant_refs = {}
    /\ remaining = {}
    /\ index = 0
    /\ ref = StaleRef
    /\ run = 0
    /\ loaded = <<>>
    /\ start_out = out_dir
    /\ start_file = exclude_file
    /\ fetches = [r \in Refs |-> 0]
    /\ outcome = [r \in Refs |-> "none"]
    /\ written = {}
    /\ flushed = {}
    /\ saved = exclude_file
    /\ changed = FALSE
    /\ iter = [excluded |-> excluded_refs, file |-> exclude_file]
    /\ prev = NoPrev
    /\ progress = NoProgress
    /\ kernel_files = <<>>
    /\ kernel_refs = NotListed
    /\ out_names = NoNames

\* The lists of distinct refs an exclude file can hold.
RefLists ==
    LET all == Refs \cup {StaleRef} IN
    {l \in UNION {[1..n -> all] : n \in 0..Cardinality(all)} :
        \A i, j \in DOMAIN l : i # j => l[i] # l[j]}

\* The --exclude argument names no file, an empty or partly written file, or
\* a file with a list; the remote service answers alike for every ref.
InitLoad ==
    /\ flow \in {"kernels", "notebooks"}
    /\ \E resp \in Responses(flow) : remote = [r \in Refs |-> resp]
    /\ exclude_exists \in BOOLEAN
    /\ exclude_file \in
          IF exclude_exists
          THEN {TruncatedFile} \cup {ValidFile(l) : l \in RefLists}
          ELSE {TruncatedFile}
    /\ kernel_dir = <<>>
    /\ name_ref = <<>>
    /\ InitProcess

\* get_args and the start of the command: argparse.FileType("r") opens the
\* --exclude path while it parses; when that fails the parser reports the
\* error and exits, and export_kernels / export_notebooks is not called.
GetArgs ==
    /\ pc = "idle"
    /\ IF exclude_exists
       THEN StartRun
       ELSE /\ pc' = "usage_error"
            /\ UNCHANGED << flow, remote, exclude_file, out_dir, proc, run,
                            hist, saved, changed, progress, aux >>

NextLoad ==
    \/ GetArgs
    \/ LoopNext
    \/ KFetch
    \/ KWriteListing
    \/ NbFetch
    \/ NbExportMetadata
    \/ NbOpenSource
    \/ NbWriteSource
    \/ AppendExcluded
    \/ SaveOpen
    \/ SaveDump

SpecLoad == InitLoad /\ [][NextLoad]_vars

\* ------------------------------------------- every answer to fetch_notebook
\* Every result client.fetch_notebook can hand to the if/elif chain and to
\* the conversion, and every exception the handlers tell apart.
AllNbResponses ==
    { NbResponse("none", 200, m, l, k, b, s, n) :
        m \in {"dict", "None"}, l \in {"python", "r"},
        k \in {"script", "notebook", "other"}, b \in {"dict", "None"},
        s \in {"str", "None"},
        n \in {"valid", "NotebookValidationError", "NotJSONError",
               "Exception"} }
    \cup { NbResponse("ApiException", st, "None", "python", "script", "None",
                      "None", "valid") : st \in {403, 404, 500} }
    \cup { NbResponse("Exception", 0, "None", "python", "script", "None",
                      "None", "valid") }

\* The notebooks command on a fresh exclude file; the remote service answers
\* alike for every ref.
InitClassify ==
    /\ flow = "notebooks"
    /\ \E resp \in AllNbResponses : remote = [r \in Refs |-> resp]
    /\ exclude_file = TruncatedFile
    /\ exclude_exists = TRUE
    /\ kernel_dir = <<>>
    /\ name_ref = <<>>
    /\ InitProcess

NextClassify ==
    \/ StartRun
    \/ LoopNext
    \/ NbFetch
    \/ NbExportMetadata
    \/ NbOpenSource
    \/ NbWriteSource
    \/ AppendExcluded
    \/ SaveOpen
    \/ SaveDump

SpecClassify == InitClassify /\ [][NextClassify]_vars

\* -------------------------------------------------- _list_all_kernel_refs
MaxFiles == 2

\* What a file of the --kernels directory can hold: a JSON list of refs (what
\* the kernels command writes), text that is not JSON, or JSON that is no
\* list: null, or an object whose keys are `items`.
ListingFile(json, items) == [json |-> json, items |-> items]

KernelFiles ==
    { ListingFile("list", l) : l \in {<<>>, <<1>>, <<NumRefs>>, <<1, NumRefs>>} }
    \cup { ListingFile("undecodable", <<>>),
           ListingFile("null", <<>>),
           ListingFile("object", <<StaleRef>>) }

KernelDirs == UNION {[1..n -> KernelFiles] : n \in 0..MaxFiles}

\* The notebooks command with any --kernels directory.
InitResolve ==
    /\ flow = "notebooks"
    /\ remote = [r \in Refs |-> RespScript]
    /\ exclude_file = TruncatedFile
    /\ exclude_exists = TRUE
    /\ kernel_dir \in KernelDirs
    /\ name_ref = <<>>
    /\ InitProcess

\* result = [] and _, _, kernel_files = next(os.walk(kernel_dir))
ListWalk ==
    /\ pc = "idle"
    /\ flow = "notebooks"
    /\ kernel_files' = kernel_dir
    /\ kernel_refs' = [raised |-> FALSE, result |-> <<>>]
    /\ pc' = "walk"
    /\ UNCHANGED << flow, remote, exclude_file, out_dir, proc, run, hist,
                    saved, changed, progress, exclude_exists, kernel_dir,
                    name_ref, out_names >>

\* One pass of `for file in kernel_files`: result += json.load(f). A
\* JSONDecodeError is caught and reported; `+=` extends the list by the
\* elements of a list and by the keys of an object, and raises TypeError for
\* null, which nothing catches.
ListRead ==
    /\ pc = "walk"
    /\ kernel_files # <<>>
    /\ LET file == Head(kernel_files) IN
       IF file.json = "undecodable"
       THEN /\ pc' = "walk"
            /\ UNCHANGED kernel_refs
       ELSE IF file.json = "null"
       THEN /\ pc' = "aborted"
            /\ kernel_refs' = [kernel_refs EXCEPT !.raised = TRUE]
       ELSE /\ pc' = "walk"
            /\ kernel_refs' = [kernel_refs EXCEPT !.result = @ \o file.items]
    /\ kernel_files' = Tail(kernel_files)
    /\ UNCHANGED << flow, remote, exclude_file, out_dir, proc, run, hist,
                    saved, changed, progress, exclude_exists, kernel_dir,
                    name_ref, out_names >>

\* return result
ListReturn ==
    /\ pc = "walk"
    /\ kernel_files = <<>>
    /\ pc' = "listed"
    /\ UNCHANGED << flow, remote, exclude_file, out_dir, proc, run, hist,
                    saved, changed, progress, aux >>

NextResolve ==
    \/ ListWalk
    \/ ListRead
    \/ ListReturn

SpecResolve == InitResolve /\ [][NextResolve]_vars

\* ----------------------------------------------------- output file names
MaxLen == 3

\* The characters a kernel ref is made of: the separator, the character of
\* its replacement, and any other.
Chars == {"a", "/", "$"}

RefStrings == UNION {[1..n -> Chars] : n \in 1..MaxLen}

\* kernel_ref.replace('/', '$$$')
RECURSIVE Replace(_)
Replace(s) ==
    IF s = <<>> THEN <<>>
    ELSE (IF Head(s) = "/" THEN <<"$", "$", "$">> ELSE <<Head(s)>>)
             \o Replace(Tail(s))

\* f"{kernel_ref.replace('/', '$$$')}.meta.json"
MetaName(s) == Replace(s) \o <<".meta.json">>

\* f"{kernel_ref.replace('/', '$$$')}.py"
PyName(s) == Replace(s) \o <<".py">>

\* The notebooks command at work on a kernel ref that is any string.
InitNaming ==
    /\ flow = "notebooks"
    /\ remote = [r \in Refs |-> RespScript]
    /\ exclude_file = TruncatedFile
    /\ exclude_exists = TRUE
    /\ kernel_dir = <<>>
    /\ name_ref \in RefStrings
    /\ InitProcess

\* export_notebooks: the name under which the metadata file is opened.
NameMetadata ==
    /\ pc = "idle"
    /\ out_names' = [out_names EXCEPT !.meta = MetaName(name_ref)]
    /\ pc' = "named_meta"
    /\ UNCHANGED << flow, remote, exclude_file, out_dir, proc, run, hist,
                    saved, changed, progress, exclude_exists, kernel_dir,
                    kernel_files, kernel_refs, name_ref >>

\* export_notebooks: the name under which the source file is opened.
NameSource ==
    /\ pc = "named_meta"
    /\ out_names' = [out_names EXCEPT !.py = PyName(name_ref)]
    /\ pc' = "named_py"
    /\ UNCHANGED << flow, remote, exclude_file, out_dir, proc, run, hist,
                    saved, changed, progress, exclude_exists, kernel_dir,
                    kernel_files, kernel_refs, name_ref >>

NextNaming ==
    \/ NameMetadata
    \/ NameSource

SpecNaming == InitNaming /\ [][NextNaming]_vars

\* ------------------------------------------------------------------ claims
\* The refs this run has retired: their attempt ended in Success or in a
\* permanent skip.
Retired == {r \in Refs : outcome[r] \in {"Success", "PermanentSkip"}}
\* The process is between two iterations, or has left the loop by itself.
BetweenItems == pc \in {"loop", "fetch", "done", "aborted"}
\* The refs in the exclude file as the next load would read them.
FileRefs == Range(LoadExcluded(exclude_file))

\* C1: crash-safety. After a run that was terminated, the next run fetches no
\* ref that a completed save of the terminated run had flushed to the
\* exclude file.
C1_CrashSafety ==
    prev.status = "terminated" => \A r \in prev.flushed : fetches[r] = 0

\* C2: atomic save. When the process is terminated, at any point, the exclude
\* file still holds a complete write with at least every ref of the last
\* completed write.
C2_AtomicSave ==
    (pc = "terminated" /\ saved.ok) =>
        /\ exclude_file.ok
        /\ Range(saved.refs) \subseteq Range(exclude_file.refs)

\* C3: a ref in the exclusion list loaded at the start of a run is not
\* fetched in that run and none of its output files is written: the refs
\* attempted are among the universe minus the loaded list.
C3_ExcludedNeverFetched ==
    \A r \in Refs :
        /\ (fetches[r] > 0 \/ r \in written) => r \in Refs \ Range(loaded)
        /\ r \in Range(loaded) => out_dir[r] = start_out[r]

C3_Witness ==
    /\ pc = "done"
    /\ \E r \in Refs : r \in Range(loaded)
    /\ \E r \in Refs : fetches[r] > 0

\* C4: every ref whose outcome is Success or a permanent skip is in the
\* in-memory list and in the rewritten exclude file before the next ref is
\* fetched; after a completed save the file holds exactly the loaded refs and
\* the refs retired so far in this run, and no ref that was only skipped
\* transiently.
C4_SaveEachExcluded ==
    BetweenItems =>
        /\ \A r \in Retired :
              /\ r \in Range(excluded_refs)
              /\ exclude_file.ok
              /\ r \in Range(exclude_file.refs)
        /\ flushed # {} =>
              /\ exclude_file.ok
              /\ Range(exclude_file.refs) = Range(loaded) \cup Retired
              /\ \A r \in Refs :
                    outcome[r] = "TransientSkip" => r \notin Range(exclude_file.refs)

C4_Witness ==
    /\ pc = "done"
    /\ flushed # {}
    /\ \E r \in Refs : outcome[r] = "TransientSkip"
    /\ \E r \in Refs : outcome[r] = "Success"

\* C5: transient-skip retry. The iteration of a ref that ends in a transient
\* skip leaves the in-memory list and the exclude file as they were when it
\* began; the ref is pending again in the next run; and when it then succeeds
\* its files are written and it is in the exclude file.
C5_TransientRetry ==
    /\ \A r \in Refs :
          outcome[r] = "TransientSkip" =>
              /\ r \notin Range(excluded_refs)
              /\ (r = ref /\ pc = "loop") =>
                    /\ excluded_refs = iter.excluded
                    /\ exclude_file = iter.file
    /\ prev.transient \subseteq relevant_refs
    /\ \A r \in prev.transient :
          (outcome[r] = "Success" /\ pc \in {"loop", "fetch", "done"}) =>
              /\ out_dir[r].meta = "written"
              /\ out_dir[r].py \in {"source", "python"}
              /\ r \in FileRefs

C5_Witness ==
    /\ pc = "done"
    /\ \E r \in prev.transient : outcome[r] = "Success"
    /\ \E r \in Refs : outcome[r] = "TransientSkip"

\* C6: a ref whose attempt ends in a skip, permanent or transient, has no
\* output file created or modified by that attempt.
C6_SkipWritesNothing ==
    \A r \in Refs :
        outcome[r] \in {"PermanentSkip", "TransientSkip"} =>
            /\ r \notin written
            /\ out_dir[r] = start_out[r]

\* C7: no fetch outcome ends the run: the run is never aborted, and a run
\* that ended by itself has attempted every pending ref.
C7_NoFatalPath ==
    /\ pc # "aborted"
    /\ pc = "done" => \A r \in relevant_refs : fetches[r] > 0

\* C8 as stated: after a completed run and with the remote service unchanged,
\* the next run fetches no ref and leaves the exclude file and the outputs
\* as they are.
C8_Idempotent ==
    (prev.status = "done" /\ ~prev.changed) =>
        /\ \A r \in Refs : fetches[r] = 0
        /\ exclude_file = start_file
        /\ pc = "done" => out_dir = start_out

\* C8 amended: after a completed run and with the remote service unchanged,
\* the next run has exactly the refs pending that the completed run skipped
\* transiently and fetches no other ref, it never writes the exclude file, and
\* when it has completed the outputs are as they were at its start.
C8_IdempotentUpToRetry ==
    (prev.status = "done" /\ ~prev.changed) =>
        /\ relevant_refs = prev.transient
        /\ \A r \in Refs : fetches[r] > 0 => r \in prev.transient
        /\ exclude_file = start_file
        /\ flushed = {}
        /\ pc = "done" =>
              /\ out_dir = start_out
              /\ \A r \in prev.transient : outcome[r] = "TransientSkip"

C8_Witness ==
    /\ pc = "done"
    /\ prev.status = "done"
    /\ ~prev.changed
    /\ prev.transient # {}
    /\ written # {}
    /\ \E r \in Refs : r \notin prev.transient /\ r \in FileRefs

\* C9: monotonicity. Within a run no ref leaves the in-memory list, every
\* completed save writes a superset of what the run loaded or last saved, and
\* at the end of the run the exclude file holds a superset of the loaded list.
C9_Monotonic ==
    /\ [][run' = run =>
            Range(excluded_refs) \subseteq Range(excluded_refs')]_vars
    /\ [][(run' = run /\ saved' # saved) =>
            /\ saved'.ok
            /\ Range(IF flushed = {} THEN loaded ELSE saved.refs)
                   \subseteq Range(saved'.refs)]_vars
    /\ [](pc \in {"done", "aborted"} => Range(loaded) \subseteq FileRefs)

C9_Witness ==
    /\ pc = "done"
    /\ loaded # <<>>
    /\ flushed # {}
    /\ Len(exclude_file.refs) > Len(loaded)

\* The refs a complete run retires and the files it leaves, as determined by
\* the answer of the remote service for each ref alone.
RetiredBy(resp) ==
    IF flow = "kernels" THEN resp.exc = "none"
    ELSE /\ NbBranch(resp) # "continue"
         /\ ~(NbBranch(resp) = "export" /\ resp.kernelType = "notebook"
                /\ resp.nb = "Exception")
FilesBy(resp, before) ==
    IF flow = "kernels"
    THEN IF resp.len > 0 THEN [before EXCEPT !.listing = "written"] ELSE before
    ELSE IF NbBranch(resp) = "export"
         THEN [before EXCEPT !.meta = "written",
                             !.py = IF resp.kernelType = "script" THEN "source"
                                    ELSE IF resp.nb = "valid" THEN "python"
                                    ELSE "empty"]
         ELSE before

\* C10: order-independence. Whatever order the loop takes, a run that
\* completes ends with the same set of excluded refs and the same output
\* files: those determined by the loaded list and by the answer of the remote
\* service for each pending ref (the answers being those of the run: the
\* service has not changed since).
C10_OrderIndependent ==
    (pc = "done" /\ ~changed) =>
        /\ Range(excluded_refs) =
              Range(loaded) \cup {r \in relevant_refs : RetiredBy(remote[r])}
        /\ out_dir = [r \in Refs |->
                        IF r \in relevant_refs
                        THEN FilesBy(remote[r], start_out[r])
                        ELSE start_out[r]]

C10_Witness ==
    /\ pc = "done"
    /\ ~changed
    /\ Len(excluded_refs) >= 2
    /\ \E i \in 1..(Len(excluded_refs) - 1) :
          /\ excluded_refs[i] \in relevant_refs
          /\ excluded_refs[i + 1] \in relevant_refs
          /\ excluded_refs[i] > excluded_refs[i + 1]

\* C11: load recovery. When the exclude file is missing, empty or not
\* parseable, the start of the command does not fail, it yields the empty
\* list, and every ref of the universe is pending.
C11_LoadRecovery ==
    (pc # "idle" /\ (~exclude_exists \/ ~start_file.ok)) =>
        /\ pc # "usage_error"
        /\ loaded = <<>>
        /\ relevant_refs = Refs

\* The variant the classification rules give for an answer, first matching
\* rule first. The rules on the content apply to a returned result.
ClaimVariant(resp) ==
    IF resp.exc = "none" /\ resp.metadata = "None" THEN "PermanentSkip"
    ELSE IF resp.exc = "none" /\ resp.language # "python" THEN "PermanentSkip"
    ELSE IF resp.exc = "none" /\ resp.kernelType \notin {"script", "notebook"}
         THEN "PermanentSkip"
    ELSE IF resp.exc = "none" /\ (resp.blob = "None" \/ resp.source = "None")
         THEN "PermanentSkip"
    ELSE IF /\ resp.exc = "none"
            /\ resp.kernelType = "notebook"
            /\ resp.nb \in {"NotebookValidationError", "NotJSONError"}
         THEN "PermanentSkip"
    ELSE IF resp.exc = "ApiException" /\ resp.status = 404 THEN "PermanentSkip"
    ELSE IF resp.exc = "ApiException" /\ resp.status = 403 THEN "PermanentSkip"
    ELSE IF resp.exc # "none" THEN "TransientSkip"
    ELSE IF resp.kernelType = "notebook" /\ resp.nb = "Exception"
         THEN "TransientSkip"
    ELSE "Success"

\* C12: notebook fetch classification. Every attempt that has ended has
\* exactly the variant the rules give for the answer of the remote service,
\* and the ref is in the exclusion list of the run exactly when that variant
\* is Success or PermanentSkip (otherwise it is left for a retry).
C12_Classification ==
    \A r \in Refs :
        (BetweenItems /\ fetches[r] > 0 /\ ~(pc = "fetch" /\ ref = r)) =>
            /\ outcome[r] = ClaimVariant(remote[r])
            /\ (r \in Range(excluded_refs)) <=>
                   (ClaimVariant(remote[r]) \in {"Success", "PermanentSkip"})
            /\ (r \notin Range(excluded_refs)) <=>
                   (ClaimVariant(remote[r]) = "TransientSkip")

\* A run has ended in which one ref was retired after a forbidden answer.
C12_Witness ==
    /\ pc = "done"
    /\ \E r \in Refs :
          /\ remote[r].exc = "ApiException"
          /\ remote[r].status = 403
          /\ outcome[r] = "PermanentSkip"
          /\ r \in Range(excluded_refs)

\* C13: in the kernels flow every ref whose fetch returned is retired once
\* its iteration has ended: it is in the exclusion list and in the saved
\* exclude file, whether the returned list is empty or not; and a listing
\* file was written for it exactly when the list is not empty.
C13_ListingRetires ==
    \A r \in Refs :
        (flow = "kernels" /\ BetweenItems /\ outcome[r] = "Success") =>
            /\ r \in Range(excluded_refs)
            /\ r \in FileRefs
            /\ (r \in written) <=> (remote[r].len > 0)
            /\ (out_dir[r].listing = "written") <=> (remote[r].len > 0)

\* A run of the kernels flow has ended that retired a ref with an empty list,
\* without a listing file, and a ref with a listing file.
C13_Witness ==
    /\ flow = "kernels"
    /\ pc = "done"
    /\ \E r, q \in Refs :
          /\ remote[r].len = 0
          /\ outcome[r] = "Success"
          /\ r \in FileRefs
          /\ r \notin written
          /\ remote[q].len > 0
          /\ outcome[q] = "Success"
          /\ out_dir[q].listing = "written"

\* C14: kernel-level universe resolution. The resolution never aborts, and
\* when it has returned, the universe is the union of the lists of the files
\* that hold a list: a file that does not hold one contributes nothing.
C14_UniverseResolution ==
    /\ ~kernel_refs.raised
    /\ pc = "listed" =>
          Range(kernel_refs.result) =
              UNION { Range(kernel_dir[i].items) :
                        i \in {j \in DOMAIN kernel_dir :
                                 kernel_dir[j].json = "list"} }

\* C15: progress reporting. With n refs pending when the run began, every
\* progress line carries the total n, however many refs the run has excluded
\* since, and an ordinal in 1..n that is the number of refs the loop has
\* taken up so far, whatever became of them.
C15_Progress ==
    progress # NoProgress =>
        /\ progress.total = Cardinality(Refs \ Range(loaded))
        /\ progress.ordinal \in 1..progress.total
        /\ progress.ordinal = Cardinality(relevant_refs \ remaining)
        /\ progress.ordinal =
              Cardinality({r \in Refs : fetches[r] > 0})
                  + (IF pc = "fetch" \/ (pc = "terminated" /\ fetches[ref] = 0)
                     THEN 1 ELSE 0)

\* The second of two pending refs is reported as 2/2 although the first is
\* in the exclusion list by now; in another run it is reported as 2/2 after
\* the first was skipped for a retry.
C15_Witness ==
    /\ pc = "fetch"
    /\ progress = [ordinal |-> 2, total |-> 2]
    /\ Len(excluded_refs) > Len(loaded)

\* The output files of a ref are complete.
ArtifactComplete(r) ==
    IF flow = "kernels"
    THEN remote[r].len > 0 => out_dir[r].listing = "written"
    ELSE out_dir[r].meta = "written" /\ out_dir[r].py \in {"source", "python"}

\* The attempt on a ref has ended: it is retired, with its output files
\* complete if it succeeded, or it is left for a retry.
Resolved(r) ==
    \/ /\ outcome[r] = "Success"
       /\ ArtifactComplete(r)
       /\ r \in Range(excluded_refs)
    \/ /\ outcome[r] = "PermanentSkip"
       /\ r \in Range(excluded_refs)
    \/ /\ outcome[r] = "TransientSkip"
       /\ r \notin Range(excluded_refs)

\* C16: strictly sequential processing. While a run is under way, every ref
\* it has fetched other than the one it works on is resolved; when a fetch
\* is about to begin, every ref fetched before is resolved and the exclude
\* file holds the retired ones; no ref is fetched twice in a run, none that
\* was not pending is fetched, and a run that reaches the end of its loop has
\* fetched every pending ref once.
C16_Sequential ==
    /\ \A r \in Refs : fetches[r] <= 1
    /\ \A r \in Refs : fetches[r] > 0 => r \in relevant_refs
    /\ pc \notin {"idle", "terminated"} =>
          \A r \in Refs \ {ref} : fetches[r] > 0 => Resolved(r)
    /\ pc = "fetch" =>
          /\ fetches[ref] = 0
          /\ \A r \in Refs :
                fetches[r] > 0 =>
                    /\ Resolved(r)
                    /\ (r \in Retired) => (r \in FileRefs)
    /\ pc = "done" =>
          \A r \in Refs : fetches[r] = (IF r \in relevant_refs THEN 1 ELSE 0)

\* A run has reached the end of its loop after it fetched two refs, one of
\* which it retired and one of which it left for a retry.
C16_Witness ==
    /\ pc = "done"
    /\ \E r, q \in Refs :
          /\ fetches[r] = 1
          /\ outcome[r] = "Success"
          /\ fetches[q] = 1
          /\ outcome[q] = "TransientSkip"

\* C17: artifact before checkpoint. In every state, also after the process
\* was killed at any step, a ref that this run has put into the exclude file
\* after a successful fetch has its output files completely written.
C17_ArtifactFirst ==
    \A r \in Refs :
        (r \in FileRefs /\ r \notin Range(loaded) /\ outcome[r] = "Success")
            => ArtifactComplete(r)

\* The process was killed when one ref was in the exclude file with its
\* output files, and the output files of the ref in flight were written but
\* the ref was not yet in the exclude file.
C17_Witness ==
    /\ pc = "terminated"
    /\ \E r, q \in Refs :
          /\ r \in FileRefs
          /\ r \notin Range(loaded)
          /\ outcome[r] = "Success"
          /\ r \in written
          /\ ArtifactComplete(r)
          /\ q \notin FileRefs
          /\ q \in written
          /\ ArtifactComplete(q)

\* C18: the output names are collision-safe. No kernel ref other than the
\* one at work has the same name for its metadata file or for its source
\* file.
C18_NamesInjective ==
    \A other \in RefStrings \ {name_ref} :
        /\ pc \in {"named_meta", "named_py"} =>
              MetaName(other) # out_names.meta
        /\ pc = "named_py" => PyName(other) # out_names.py

\* C19: the list of the exclude file gains no duplicate and loses no stale
\* entry. The in-memory list is the loaded list followed by refs that are
\* neither in the loaded list nor appended twice; every completed save of the
\* run writes the loaded list, entries outside the universe included,
\* followed by the refs retired up to then, so that the file holds as many
\* entries as were loaded plus one for each ref retired so far.
C19_NoDuplicateNoLoss ==
    /\ Len(excluded_refs) >= Len(loaded)
    /\ SubSeq(excluded_refs, 1, Len(loaded)) = loaded
    /\ \A i \in (Len(loaded) + 1)..Len(excluded_refs) :
          /\ excluded_refs[i] \notin Range(loaded)
          /\ \A j \in (Len(loaded) + 1)..Len(excluded_refs) :
                i # j => excluded_refs[i] # excluded_refs[j]
    /\ flushed # {} =>
          /\ saved.ok
          /\ SubSeq(saved.refs, 1, Len(loaded)) = loaded
          /\ Len(saved.refs) = Len(loaded) + Cardinality(flushed)
          /\ Range(saved.refs) = Range(loaded) \cup flushed
    /\ (BetweenItems /\ flushed # {}) =>
          /\ exclude_file = saved
          /\ Len(exclude_file.refs) = Len(loaded) + Cardinality(Retired)

\* A run that loaded a list with an entry outside the universe has ended
\* after it retired a ref: the file holds the loaded entries and that ref.
C19_Witness ==
    /\ pc = "done"
    /\ StaleRef \in Range(loaded)
    /\ Retired # {}
    /\ exclude_file.ok
    /\ StaleRef \in Range(exclude_file.refs)
    /\ Len(exclude_file.refs) = Len(loaded) + Cardinality(Retired)

====
